---- MODULE Spec2Model ----
(***************************************************************************)
(* Speech2Text: the job orchestration of MainWindow (src/src/mainwindow.py)*)
(* with the ConvertWorker and the six engine adapters.                     *)
(*                                                                         *)
(* The main (GUI) thread runs one handler at a time; every handler is one  *)
(* action here, including all the calls it makes synchronously             *)
(* (process_files -> engine.run -> finished_processing -> process_files).  *)
(* A worker thread is modelled by two steps: the end of its run() (the     *)
(* `finished` signal is emitted and queued to the main thread) and the     *)
(* handler slot the main thread runs for that signal.                      *)
(*                                                                         *)
(* Calls are bound the way the call sites destructure them: the helper     *)
(* split_path_file returns (dirname, basename) and the engines' run        *)
(* methods receive the file path that process_files passes first.          *)
(* A file name is the sequence of its dot-separated components, all files  *)
(* live in one folder.                                                     *)
(*                                                                         *)
(* The settings dialog (src/src/settings.py) is explored from the idle     *)
(* window by SettingsSpec; Spec explores the runs under each configuration;*)
(* RerunSpec explores one run more under a configuration in which the      *)
(* overwrite prompts occur, after a "to all" answer or a failed conversion;*)
(* QueueSpec calls the queue methods on their own; FolderSpec explores the *)
(* runs under faster-whisper on any files of the folder.                   *)
(***************************************************************************)
EXTENDS FiniteSets, Integers, Sequences, TLC

(* ----------------------------- bounds ---------------------------------- *)
MaxQueue == 2          \* files the user submits at once
MaxRuns  == 1          \* invocations of do_process_files that Spec explores
MaxPrompts == 2        \* overwrite prompts answered inside one handler

(* ------------------------- program constants --------------------------- *)
IDLE       == "Idle"
PROCESSING == "Processing"
CONVERTING == "Converting"
CANCELLING == "Cancelling"
Status == {IDLE, PROCESSING, CONVERTING, CANCELLING}

Engines == {"whisper", "mlx-whisper", "whisper.cpp",
            "whisper_asr_webservice", "whisper.api", "faster-whisper"}
ConvertOwner == "convert"
Owners == Engines \cup {ConvertOwner}

ShortClipLimit == 30
CorrectRate    == 16000
CorrectWidth   == 2

AllExtensions == {".wav", ".mp3", ".mp4", ".m4a", ".aiff", ".mpeg", ".mov",
                  ".avi", ".wmv", ".webm"}

Answers == {"Yes", "No", "YesToAll", "NoToAll"}
UrlKinds == {"invalid", "http", "https", "other"}

\* audio lengths of the files of the model, around ShortClipLimit
LongSecs  == ShortClipLimit + 15
ShortSecs == ShortClipLimit - 18

(* --------------------------- files on disk ----------------------------- *)
(* What the prober can see of a file: the extension puremagic reports      *)
(* ("" when it cannot identify the file), whether the wave module can read *)
(* its header, the header's rate and sample width, the audio length.       *)
Wav(rate, width, secs) ==
    [magic |-> ".wav", readable |-> TRUE, rate |-> rate, width |-> width, secs |-> secs]
WavCorrupt ==
    [magic |-> ".wav", readable |-> FALSE, rate |-> 0, width |-> 0, secs |-> LongSecs]
Mp3(secs) ==
    [magic |-> ".mp3", readable |-> FALSE, rate |-> 44100, width |-> 2, secs |-> secs]
Unknown ==
    [magic |-> "", readable |-> FALSE, rate |-> 0, width |-> 0, secs |-> LongSecs]


InitDisk ==
    ( <<"a", "wav">> :> Wav(16000, 2, LongSecs)  @@
      <<"b", "wav">> :> Wav(16000, 2, ShortSecs) @@
      <<"c", "mp3">> :> Mp3(LongSecs)            @@
      <<"d", "mp3">> :> Mp3(ShortSecs)           @@
      <<"d", "wav">> :> Wav(8000, 1, ShortSecs)  @@
      <<"e", "wav">> :> Wav(8000, 1, LongSecs)   @@
      <<"e_converted", "wav">> :> Wav(16000, 2, LongSecs) @@
      <<"f", "wav">> :> Wav(8000, 1, LongSecs)   @@
      <<"f_converted", "wav">> :> Wav(16000, 2, LongSecs) @@
      <<"u", "mp3">> :> Unknown )

\* the files the user picks from
Candidates == { <<"a", "wav">>, <<"b", "wav">>, <<"c", "mp3">>,
                <<"d", "mp3">>, <<"e", "wav">>, <<"f", "wav">>, <<"u", "mp3">> }

RECURSIVE SeqsUpTo(_, _)
SeqsUpTo(S, n) ==
    IF n = 0 THEN { <<>> }
    ELSE LET shorter == SeqsUpTo(S, n - 1)
         IN  shorter \cup { Append(s, x) : s \in shorter, x \in S }

Range(s) == { s[i] : i \in 1..Len(s) }
Distinct(s) == Cardinality(Range(s)) = Len(s)

\* the lists a file dialog or a drop can deliver
FileLists == { s \in SeqsUpTo(Candidates, MaxQueue) : Distinct(s) }

(* ------------------------------ state ---------------------------------- *)
VARIABLES
    settings,       \* QSettings: Whisper/Engine, FFmpeg/path, Settings/Language, ...
    comboOutput,    \* form_widget.comboOutput: its items and the current index
    disk,           \* the files of the folder: name -> what the prober sees
    status,         \* MainWindow.status
    STOP,           \* MainWindow.STOP
    filenames,      \* MainWindow.filenames, the queue (head first)
    worker,         \* the worker handles: MainWindow.worker and <engine>.worker
    overwrite_all_existing_files,
    not_overwrite_all_existing_files,
    insecure_server_ok_all,
    gui_enabled,    \* button1 / menu_open_action enabled
    start_enabled,  \* button2 / start_action enabled
    runs,           \* number of do_process_files invocations so far
    submitted,      \* the queue as it was when the current run started
    log,            \* messages shown to the user since the last submission or start
    dispatched,     \* files an engine worker was started on, current run, in order
    converting,     \* files a ConvertWorker was started on, current run, in order
    outputs,        \* jobs whose output artifact was written, current run
    prompts,        \* the answers to the overwrite prompts shown, current run
    handled,        \* completion signals handled by the main thread, current run
    fault,          \* a worker of the current run did not succeed
    resubmitted,    \* the latest submission found files pending in the queue
    resumed,        \* the latest handler set status from Cancelling to Processing/Converting
    ended,          \* calls of notify_finished / reset_after_err_or_cancelled, current run
    found,          \* what remove_from_queue returned to a caller that kept it
    run_limit       \* the invocations of do_process_files that are explored

vars == << settings, comboOutput, disk, status, STOP, filenames, worker,
           overwrite_all_existing_files, not_overwrite_all_existing_files,
           insecure_server_ok_all, gui_enabled, start_enabled,
           runs, submitted, log, dispatched, converting, outputs, prompts,
           handled, fault, resubmitted, resumed, ended, found, run_limit >>

(* A worker handle. phase: "none" (handle is None), "running" (thread in   *)
(* run()), "emitted" (run() has emitted `finished`, the slot has not run   *)
(* yet), "raised" (run() ended by an exception before emitting).           *)
(* intr: the number of requestInterruption() / interrupt.emit() calls on   *)
(* the worker; stopped_in: the phase the worker was in when the user asked *)
(* to stop; err, interrupted, final, response_ok: the fields of the data   *)
(* object the worker emits; failed: the backend call of the worker did not *)
(* succeed; process: the external process of the whisper.cpp worker        *)
(* (Worker.process): "none" (never created), "running", "exited" (ended on *)
(* its own), "terminated" (ended within the wait after terminate()),       *)
(* "killed" (kill() after the wait timed out).                             *)
NoWorker ==
    [ phase |-> "none", file |-> <<>>, intr |-> 0, stopped_in |-> "none",
      err |-> FALSE, interrupted |-> FALSE, final |-> <<>>, response_ok |-> TRUE,
      failed |-> FALSE, process |-> "none" ]
NewWorker(f) ==
    [ NoWorker EXCEPT !.phase = "running", !.file = f ]

(* ------------------------- utils.py: the prober ------------------------ *)
isfile(fpath) == fpath \in DOMAIN disk

check_acceptable_file(fpath, acceptable_extensions) ==
    /\ isfile(fpath)
    /\ disk[fpath].magic \in acceptable_extensions

\* returns the tuple (ok_format, err)
correct_wav_file(fpath) ==
    LET c           == disk[fpath]
        err         == ~ c.readable
        sample_rate  == IF c.readable THEN c.rate ELSE 0
        sample_width == IF c.readable THEN c.width ELSE 0
    IN  << sample_rate = CorrectRate /\ sample_width = CorrectWidth, err >>

get_audio_duration(file_path) ==
    LET extension == IF isfile(file_path) THEN disk[file_path].magic ELSE ""
    IN  IF extension \in {".wav"} /\ disk[file_path].readable
        THEN disk[file_path].secs
        ELSE 0

lang_to_code(lang_str) == IF lang_str = "Auto Detect" THEN "auto" ELSE "en"

\* Python's `not x` on a tuple: true for the empty tuple only
PyNotTuple(t) == Len(t) = 0

\* the_file.split(".")[0] followed by ".<ext>"
WithExtension(fpath, ext) == << fpath[1], ext >>

output_file_extension == 
    CASE settings.Output = "VTT"  -> "vtt"
      [] settings.Output = "SRT"  -> "srt"
      [] settings.Output = "JSON" -> "json"
      [] settings.Output = "TSV"  -> "tsv"
      [] settings.Output = "LRC"  -> "lrc"
      [] OTHER                    -> "txt"

output_filename(fpath) == WithExtension(fpath, output_file_extension)

(* ------------------------------ the queue ------------------------------ *)
queue_length(S) == Len(S.filenames)
\* variant: takes the file at the back of the queue
first_in_queue_back(S) ==
    IF queue_length(S) > 0 THEN S.filenames[queue_length(S)] ELSE <<>>
first_in_queue(S) == IF queue_length(S) > 0 THEN S.filenames[1] ELSE <<>>
\* a queue that is not emptied
clear_queue_keep(S) == S
clear_queue(S) == [S EXCEPT !.filenames = <<>>]

\* variant: new paths go to the back of the queue
add_to_queue_back(S, files) == [S EXCEPT !.filenames = @ \o files]

\* filename is one path or a list of paths
add_to_queue(S, files) == [S EXCEPT !.filenames = files \o @]

RemoveFirst(s, x) ==
    LET i == CHOOSE k \in 1..Len(s) : s[k] = x /\ \A j \in 1..(k-1) : s[j] # x
    IN  SubSeq(s, 1, i - 1) \o SubSeq(s, i + 1, Len(s))

\* list.remove on every occurrence instead of the first one
remove_from_queue_all(S, filename) ==
    [S EXCEPT !.filenames = SelectSeq(@, LAMBDA x : x # filename)]

remove_from_queue(S, filename) ==
    IF filename \in Range(S.filenames)
    THEN [S EXCEPT !.filenames = RemoveFirst(@, filename)]
    ELSE S

\* the value remove_from_queue returns: `found`
remove_from_queue_found(S, filename) == filename \in Range(S.filenames)

feedback(S, msg) == [S EXCEPT !.log = Append(@, msg)]

\* MainWindow.set_status; S.resumed records an assignment that takes the
\* status from Cancelling back to Processing or Converting
set_status(S, new_status) ==
    [ S EXCEPT !.status = new_status,
               !.resumed = @ \/ ( S.status = CANCELLING
                                  /\ new_status \in {PROCESSING, CONVERTING} ) ]

(* ----------------- MainWindow: the end of a run ------------------------ *)
reset_after_err_or_cancelled(S) ==
    set_status([ clear_queue(S) EXCEPT !.gui_enabled = TRUE, !.start_enabled = FALSE,
                                       !.ended = @ + 1 ],
               IDLE)

\* conversion is False at every call site
notify_finished(S) ==
    set_status([ feedback(clear_queue(S), "finished")
                   EXCEPT !.gui_enabled = TRUE, !.start_enabled = FALSE,
                          !.ended = @ + 1 ],
               IDLE)

convert_worker_shutdown(S) == [S EXCEPT !.worker[ConvertOwner] = NoWorker]
\* a shutdown that tells the user when there is no handle to tear down
worker_shutdown_reporting(S, engine) ==
    IF S.worker[engine] = NoWorker
    THEN feedback(S, "not_initialized")
    ELSE [S EXCEPT !.worker[engine] = NoWorker]
\* a shutdown that leaves the handle in place
worker_shutdown_keep(S, engine) == S
worker_shutdown(S, engine) == [S EXCEPT !.worker[engine] = NoWorker]

\* <engine>.worker = Worker(data); ...; self.worker.start()
start_worker(S, engine, fpath) ==
    [ S EXCEPT !.worker[engine] = NewWorker(fpath),
               !.dispatched = Append(@, fpath) ]

\* the answer of ask_to_overwrite: the ToAll buttons exist only for n_files > 1
ask_to_overwrite(answer, n_files) ==
    IF n_files > 1 THEN answer
    ELSE IF answer \in {"Yes", "YesToAll"} THEN "Yes" ELSE "No"

(* An oracle o gives the inputs a handler reads while it runs:             *)
(*   o.answers   the user's answers to the overwrite prompts, in order     *)
(*   o.hash_ok   whisper.cpp: model file absent or its hash as expected    *)
(*   o.too_big   whisper.api: the file exceeds 25 MB                       *)
(*   o.insecure  the answer to the unencrypted-connection prompt           *)
(* S.np counts the overwrite prompts the handler has shown so far.         *)

RECURSIVE process_files(_, _)
RECURSIVE finished_processing(_, _, _, _, _, _)
RECURSIVE handle_finished_convert_worker(_, _, _, _, _)
RECURSIVE convert_input_file_format(_, _, _)
RECURSIVE convert_input_file_if_needed(_, _, _)
RECURSIVE engine_run(_, _, _)

\* variant: after an error the file is dropped and the run goes on
finished_processing_skip(S, o, fpath, err, cancelled, error_msg) ==
    IF ~cancelled THEN
        LET S0 == IF err THEN feedback(S, IF error_msg # "" THEN error_msg ELSE "error")
                  ELSE S
            S1 == remove_from_queue(S0, fpath)
        IN  IF queue_length(S1) = 0
            THEN notify_finished(S1)
            ELSE IF ~S1.STOP
                 THEN process_files(S1, o)
                 ELSE reset_after_err_or_cancelled(feedback(S1, "cancelled"))
    ELSE
        reset_after_err_or_cancelled(feedback(S, "cancelled"))

(* MainWindow.finished_processing(fpath, err, cancelled, error_msg);       *)
(* conversion is False at every call site.                                 *)
finished_processing(S, o, fpath, err, cancelled, error_msg) ==
    IF ~err /\ ~cancelled THEN
        LET S1 == remove_from_queue(S, fpath)
            remaining_files == queue_length(S1)
        IN  IF remaining_files = 0 /\ ~cancelled
            THEN notify_finished(S1)
            ELSE IF ~S1.STOP
                 THEN process_files(S1, o)
                 ELSE finished_processing(S1, o, <<>>, FALSE, TRUE, "")
    ELSE IF cancelled THEN
        reset_after_err_or_cancelled(feedback(S, "cancelled"))
    ELSE
        reset_after_err_or_cancelled(
            feedback(S, IF error_msg # "" THEN error_msg ELSE "error"))

\* variant: the end of a conversion leaves the status as it is
handle_finished_convert_worker_keep_status(S, o, original_file_fpath, final_file_fpath, err) ==
    LET S1 == convert_worker_shutdown(S)
        S2 == IF ~err THEN add_to_queue(S1, <<final_file_fpath>>) ELSE S1
    IN  finished_processing(S2, o, original_file_fpath, err, FALSE, "")

\* variant: the end of a conversion withdraws a pending cancel request
handle_finished_convert_worker_resume(S, o, original_file_fpath, final_file_fpath, err) ==
    LET S1 == convert_worker_shutdown(set_status([S EXCEPT !.STOP = FALSE], PROCESSING))
        S2 == IF ~err THEN add_to_queue(S1, <<final_file_fpath>>) ELSE S1
    IN  finished_processing(S2, o, original_file_fpath, err, FALSE, "")

handle_finished_convert_worker(S, o, original_file_fpath, final_file_fpath, err) ==
    LET S1 == convert_worker_shutdown(set_status(S, PROCESSING))
        S2 == IF ~err THEN add_to_queue(S1, <<final_file_fpath>>) ELSE S1
    IN  finished_processing(S2, o, original_file_fpath, err, FALSE, "")

\* returns [S, err]
convert_input_file_format(S, o, fpath) ==
    LET out_fpath == WithExtension(fpath, "wav")
        \* out_fpath exists: the name that is compared with itself
        full_filename == out_fpath
        final_out_filename == WithExtension(out_fpath, "wav")
        final_out_fpath ==
            IF ~isfile(out_fpath) THEN <<>>
            ELSE IF full_filename = final_out_filename
                 THEN << out_fpath[1] \o "_converted", "wav" >>
                 ELSE out_fpath
        prompt == /\ isfile(out_fpath)
                  /\ isfile(final_out_fpath)
                  /\ ~S.overwrite_all_existing_files
                  /\ ~S.not_overwrite_all_existing_files
        response == IF prompt
                    THEN ask_to_overwrite(o.answers[S.np + 1], queue_length(S))
                    ELSE "none"
        S1 == IF prompt
              THEN [ S EXCEPT !.np = @ + 1,
                       !.prompts = Append(@, response),
                       !.not_overwrite_all_existing_files = @ \/ response = "NoToAll",
                       !.overwrite_all_existing_files = @ \/ response = "YesToAll" ]
              ELSE S
        converted_file_exists ==
            /\ isfile(out_fpath)
            /\ isfile(final_out_fpath)
            /\ \/ response \in {"No", "NoToAll"}
               \/ S1.not_overwrite_all_existing_files
        is_wav == check_acceptable_file(fpath, {".wav"})
    IN  IF ~converted_file_exists THEN
            IF settings.FFmpeg \/ is_wav
            THEN [ S   |-> set_status(
                              [ S1 EXCEPT !.worker[ConvertOwner] = NewWorker(fpath),
                                          !.converting = Append(@, fpath) ],
                              CONVERTING),
                   err |-> FALSE ]
            ELSE [ S |-> feedback(S1, "no_ffmpeg"), err |-> TRUE ]
        ELSE [ S   |-> handle_finished_convert_worker(S1, o, fpath, final_out_fpath, FALSE),
               err |-> FALSE ]

\* variant: the format test of a WAV file is inverted
ConversionDecision_inverted(fpath) ==
    LET converted_fpath == WithExtension(fpath, "wav")
    IN  IF settings.Engine \in {"whisper", "whisper.cpp"} THEN
            IF check_acceptable_file(fpath, AllExtensions) THEN
                IF check_acceptable_file(fpath, {".wav"}) THEN
                    IF correct_wav_file(fpath)[1] THEN "convert" ELSE "same"
                ELSE
                    IF isfile(converted_fpath) THEN "already_exist" ELSE "convert"
            ELSE "same"
        ELSE "same"

\* what convert_input_file_if_needed decides for fpath
ConversionDecision(fpath) ==
    LET converted_fpath == WithExtension(fpath, "wav")
    IN  IF settings.Engine \in {"whisper", "whisper.cpp"} THEN
            IF check_acceptable_file(fpath, AllExtensions) THEN
                IF check_acceptable_file(fpath, {".wav"}) THEN
                    LET r == correct_wav_file(fpath)
                        ok_format == r[1]
                        err == r[2]
                    IN  IF ~err
                        THEN IF ~ok_format THEN "convert" ELSE "same"
                        ELSE "convert"
                ELSE
                    IF isfile(converted_fpath) THEN
                        IF PyNotTuple(correct_wav_file(converted_fpath))
                        THEN "convert"
                        ELSE "already_exist"
                    ELSE "convert"
            ELSE "same"
        ELSE "same"

\* returns [S, err, already_exist, need_conversion]
convert_input_file_if_needed(S, o, fpath) ==
    CASE ConversionDecision(fpath) = "convert" ->
            convert_input_file_format(S, o, fpath) @@
                [ already_exist |-> FALSE, need_conversion |-> TRUE ]
      [] ConversionDecision(fpath) = "already_exist" ->
            [ S |-> add_to_queue(S, << WithExtension(fpath, "wav") >>), err |-> FALSE,
              already_exist |-> TRUE, need_conversion |-> FALSE ]
      [] OTHER ->
            [ S |-> S, err |-> FALSE, already_exist |-> FALSE, need_conversion |-> FALSE ]

(* ------------------------- the engine adapters ------------------------- *)
\* WhisperCPPEngine.continue_processing: the model-file hash check returns
\* without starting a worker and without reporting to the main window
whispercpp_continue_processing(S, o, filename) ==
    IF ~o.hash_ok
    THEN feedback(S, "hash_mismatch")
    ELSE start_worker(S, "whisper.cpp", filename)

\* WhisperEngine.run after convert_input_file_if_needed has returned r
local_engine_continue(r, o, filename) ==
    IF ~r.need_conversion /\ ~r.already_exist /\ ~r.err THEN
        IF settings.Engine = "whisper.cpp"
        THEN whispercpp_continue_processing(r.S, o, filename)
        ELSE start_worker(r.S, settings.Engine, filename)
    ELSE IF r.already_exist /\ ~r.err THEN
        finished_processing(r.S, o, filename, FALSE, FALSE, "")
    ELSE IF r.err THEN
        finished_processing(r.S, o, filename, TRUE, FALSE, "")
    ELSE r.S

\* variant: the engine's worker is started although a conversion was started
local_engine_run_eager(S, o, filename) ==
    local_engine_continue(
        [ convert_input_file_if_needed(S, o, filename) EXCEPT !.need_conversion = FALSE ],
        o, filename)

\* WhisperEngine.run, WhisperMLXEngine.run, WhisperCPPEngine.run
local_engine_run(S, o, filename) ==
    local_engine_continue(convert_input_file_if_needed(S, o, filename), o, filename)

\* WhisperWebserviceEngine.run
webservice_run(S, o, audio_file) ==
    LET url == settings.URL
        engine == "whisper_asr_webservice"
    IN  IF url = "invalid" THEN
            \* handle_finished(data) with data.err
            finished_processing(worker_shutdown(feedback(S, "url_invalid"), engine),
                                o, audio_file, TRUE, FALSE, "")
        ELSE IF url = "http" THEN
            IF ~S.insecure_server_ok_all THEN
                LET button == IF queue_length(S) <= 1 /\ o.insecure = "YesToAll"
                              THEN "Yes" ELSE o.insecure
                IN  IF button \in {"Yes", "YesToAll"}
                    THEN start_worker([S EXCEPT !.insecure_server_ok_all =
                                                    @ \/ button = "YesToAll"],
                                      engine, audio_file)
                    ELSE finished_processing(S, o, audio_file, FALSE, TRUE, "")
            ELSE start_worker(S, engine, audio_file)
        ELSE IF url = "https" THEN
            start_worker(S, engine, audio_file)
        ELSE S

\* WhisperAPIEngine.run
api_run(S, o, audio_file) ==
    LET engine == "whisper.api"
    IN  IF settings.Key THEN
            IF o.too_big
            THEN finished_processing(worker_shutdown(S, engine), o, audio_file,
                                     TRUE, FALSE, "too_big")
            ELSE start_worker(S, engine, audio_file)
        ELSE
            \* the dialog, then the same text as error_msg
            finished_processing(worker_shutdown(feedback(S, "key_missing_dialog"), engine),
                                o, audio_file, TRUE, FALSE, "key_missing")

engine_run(S, o, fpath) ==
    CASE settings.Engine \in {"whisper", "mlx-whisper", "whisper.cpp"} ->
            local_engine_run(S, o, fpath)
      [] settings.Engine = "whisper_asr_webservice" -> webservice_run(S, o, fpath)
      [] settings.Engine = "whisper.api"            -> api_run(S, o, fpath)
      [] settings.Engine = "faster-whisper"         ->
            start_worker(S, "faster-whisper", fpath)

(* ---------------------- MainWindow.process_files ----------------------- *)
\* variant: the short clip is reported but STOP is not set
check_duration_warn(S) ==
    LET fpath == first_in_queue(S)
        language == lang_to_code(settings.Language)
        duration == get_audio_duration(fpath)
    IN  IF language = "auto" /\ duration > 0 /\ duration < ShortClipLimit
        THEN feedback(S, "short_clip")
        ELSE S

\* process_files: the language check; returns the state with STOP set when
\* the clip at the head of the queue is too short for language detection
check_duration(S) ==
    LET fpath == first_in_queue(S)
        language == lang_to_code(settings.Language)
        duration == get_audio_duration(fpath)
    IN  IF language = "auto" /\ duration > 0 /\ duration < ShortClipLimit
        THEN [ feedback(S, "short_clip") EXCEPT !.STOP = TRUE ]
        ELSE S

\* process_files: `if not self.STOP:` the dispatch on Whisper/Engine
dispatch(S1, o) ==
    IF ~S1.STOP THEN engine_run(S1, o, first_in_queue(S1)) ELSE S1

\* process_files: the closing `if self.STOP:`
process_files_end(S3, o) ==
    IF S3.STOP
    THEN finished_processing(S3, o, <<>>, FALSE, TRUE, "")
    ELSE S3

process_files(S, o) ==
    process_files_end(
        IF queue_length(S) > 0 /\ ~S.STOP THEN dispatch(check_duration(S), o) ELSE S,
        o)

(* ------------------------ the worker threads --------------------------- *)
\* variant: the converter writes to <basename>.<target_format>, the path
\* convert_input_file_if_needed probes
ConvertOutPath_basename(original_file_fpath, target_format) ==
    << original_file_fpath[1], target_format >>

\* ConvertWorker.run: the path the converter writes to
ConvertOutPath(original_file_fpath, target_format) ==
    LET the_file_name == original_file_fpath
        n == Len(the_file_name)
        out_filename == [the_file_name EXCEPT ![n] = @ \o target_format]
    IN  IF the_file_name = out_filename
        THEN [the_file_name EXCEPT ![n] = @ \o "_converted" \o target_format]
        ELSE out_filename

\* what a ConvertWorker can leave on disk and emit
ConvertOutcomes(w) ==
    LET out == ConvertOutPath(w.file, "wav")
        done == [w EXCEPT !.phase = "emitted", !.final = out]
    IN  { [ w    |-> done,
            disk |-> [ p \in DOMAIN disk \cup {out} |->
                         IF p = out THEN Wav(CorrectRate, CorrectWidth, disk[w.file].secs)
                         ELSE disk[p] ] ],
          [ w    |-> [done EXCEPT !.err = TRUE, !.failed = TRUE],
            disk |-> disk ],
          [ w    |-> [done EXCEPT !.err = TRUE, !.failed = TRUE],
            disk |-> [ p \in DOMAIN disk \cup {out} |->
                         IF p = out THEN WavCorrupt ELSE disk[p] ] ] }

\* variant: stop() only requests the interruption of the thread
Worker_stop_request_only(process) == {process}

\* whisper.cpp Worker.stop: what becomes of the external process
Worker_stop(process) ==
    IF process = "running" THEN {"terminated", "killed"} ELSE {process}

\* whisper.cpp Worker.start_asr: the external process when start_asr returns
\* with the result r; a run that was not interrupted has waited for the
\* process in communicate() unless an exception took it to `finally`
ProcessAfter(w, r) ==
    IF w.process # "running" THEN {w.process}
    ELSE IF r.interrupted THEN Worker_stop(w.process)
    ELSE IF r.failed THEN {"exited"} \cup Worker_stop(w.process)
    ELSE {"exited"}

\* how the run() of an engine's Worker can end
EngineOutcomes(engine, w) ==
    LET emitted(err, interrupted, failed) ==
            [ w EXCEPT !.phase = "emitted", !.err = err,
                       !.interrupted = interrupted, !.failed = failed ]
        raised == [ w EXCEPT !.phase = "raised", !.failed = TRUE ]
        \* success, reported failure, failure by an exception run() does not catch
        plain == { emitted(FALSE, FALSE, FALSE), emitted(TRUE, FALSE, TRUE) }
    IN  CASE engine = "whisper" ->
               \* try / except RuntimeError / finally: finished.emit
               plain \cup { emitted(FALSE, FALSE, TRUE) }
          [] engine = "mlx-whisper" ->
               \* data.interrupted = interrupted (the local) at the end of run();
               \* execute_task_mlx returns err = False after a RuntimeError
               plain \cup { emitted(FALSE, FALSE, TRUE), raised }
          [] engine = "whisper.cpp" ->
               UNION { { [r EXCEPT !.process = p] : p \in ProcessAfter(w, r) } :
                       r \in plain \cup { emitted(FALSE, FALSE, TRUE) }
                             \cup ( IF w.intr > 0
                                    THEN { emitted(FALSE, TRUE, FALSE),
                                           emitted(TRUE, TRUE, TRUE) }
                                    ELSE {} ) }
          [] engine = "faster-whisper" ->
               plain \cup ( IF w.intr > 0 THEN { emitted(FALSE, TRUE, FALSE) } ELSE {} )
          [] engine = "whisper_asr_webservice" ->
               plain \cup { [ emitted(FALSE, FALSE, TRUE) EXCEPT !.response_ok = FALSE ],
                            raised }
          [] engine = "whisper.api" ->
               plain \cup { raised }

\* the engine's handle_finished up to its call of finished_processing:
\* [S, err, cancelled]
engine_handle_finished(S, engine, data) ==
    LET written == [ S EXCEPT !.outputs = @ \cup
                        { [job |-> data.file, out |-> output_filename(data.file)] } ]
        S1 == CASE engine \in {"whisper", "mlx-whisper", "whisper.api"} ->
                     IF ~data.err THEN written ELSE S
                [] engine = "faster-whisper" ->
                     IF ~data.interrupted /\ ~data.err THEN written ELSE S
                [] engine = "whisper_asr_webservice" ->
                     IF ~data.err /\ data.response_ok THEN written ELSE S
                [] engine = "whisper.cpp" ->
                     \* whisper-cli writes the output file itself
                     IF ~data.err /\ ~data.interrupted /\ ~data.failed THEN written ELSE S
        err == IF engine = "whisper_asr_webservice"
               THEN data.err \/ ~data.response_ok
               ELSE data.err
        cancelled ==
            CASE engine \in {"mlx-whisper", "faster-whisper"} -> data.interrupted
              [] engine = "whisper.cpp" -> IF ~data.err THEN data.interrupted ELSE FALSE
              [] OTHER -> FALSE
    IN  [ S |-> worker_shutdown(S1, engine), err |-> err, cancelled |-> cancelled ]

(* ------------------------ the settings dialog -------------------------- *)
\* MainWindow.output_items
output_items(engine) ==
    IF engine = "whisper.cpp" THEN << "VTT", "SRT", "JSON", "TSV", "LRC", "TEXT" >>
    ELSE IF engine = "faster-whisper" THEN << "VTT", "SRT", "TEXT" >>
    ELSE << "VTT", "SRT", "JSON", "TEXT" >>

OutputFormats == Range(output_items("whisper.cpp"))

\* QComboBox.currentText; index 0 stands for "no current item"
currentText(c) == IF c.index = 0 THEN "" ELSE c.items[c.index]

\* QComboBox.findText, 0 when absent
findText(c, text) ==
    IF \E i \in 1..Len(c.items) : c.items[i] = text
    THEN CHOOSE i \in 1..Len(c.items) :
            /\ c.items[i] = text
            /\ \A j \in 1..(i - 1) : c.items[j] # text
    ELSE 0

\* MainWindow.update_output_setting, the slot of comboOutput.currentTextChanged:
\* Z is the window after the change of the combo box, `before` its text before
update_output_setting(Z, before) ==
    IF currentText(Z.comboOutput) # before
    THEN [ Z EXCEPT !.settings.Output = currentText(Z.comboOutput) ]
    ELSE Z

\* comboOutput.setCurrentIndex(i)
setCurrentIndex(Z, i) ==
    IF i \in 1..Len(Z.comboOutput.items)
    THEN update_output_setting([ Z EXCEPT !.comboOutput.index = i ],
                               currentText(Z.comboOutput))
    ELSE Z

\* comboOutput.setCurrentText(text): a combo box that is not editable moves
\* to the item with that text, and stays when there is none
setCurrentText(Z, text) == setCurrentIndex(Z, findText(Z.comboOutput, text))

\* comboOutput.removeItem(i): when the current item is removed the item that
\* takes its place (or the last one) becomes current
removeItem(Z, i) ==
    IF i \in 1..Len(Z.comboOutput.items)
    THEN update_output_setting(
            [ Z EXCEPT !.comboOutput =
                [ items |-> SubSeq(@.items, 1, i - 1) \o
                            SubSeq(@.items, i + 1, Len(@.items)),
                  index |-> IF i < @.index THEN @.index - 1
                            ELSE IF i = @.index /\ i = Len(@.items) THEN i - 1
                            ELSE @.index ] ],
            currentText(Z.comboOutput))
    ELSE Z

\* comboOutput.addItems(texts): the first item added to an empty combo box
\* becomes current
addItems(Z, texts) ==
    update_output_setting(
        [ Z EXCEPT !.comboOutput =
            [ items |-> @.items \o texts,
              index |-> IF @.index = 0 /\ texts # <<>> THEN 1 ELSE @.index ] ],
        currentText(Z.comboOutput))

RECURSIVE remove_all_but_TEXT(_, _)
\* the loop of update_mainwindow_output_options that empties the combo box
remove_all_but_TEXT(Z, i) ==
    IF Len(Z.comboOutput.items) >= i
    THEN IF Z.comboOutput.items[i] = "TEXT"
         THEN remove_all_but_TEXT(removeItem(Z, i + 1), i + 1)
         ELSE remove_all_but_TEXT(removeItem(Z, i), i)
    ELSE Z

\* the end of update_mainwindow_output_options: the last item with the text
\* `selected` becomes current, the first item when there is none
select_output(Z, selected) ==
    setCurrentIndex(Z,
        IF \E i \in 1..Len(Z.comboOutput.items) : Z.comboOutput.items[i] = selected
        THEN CHOOSE i \in 1..Len(Z.comboOutput.items) :
                /\ Z.comboOutput.items[i] = selected
                /\ \A j \in (i + 1)..Len(Z.comboOutput.items) :
                        Z.comboOutput.items[j] # selected
        ELSE 1)

\* SettingsDialog.update_mainwindow_output_options; `selected` is read
\* before the combo box is emptied
update_mainwindow_output_options(Z) ==
    select_output(
        addItems(remove_all_but_TEXT(Z, 1),
                 SelectSeq(output_items(Z.settings.Engine), LAMBDA x : x # "TEXT")),
        Z.settings.Output)

\* SettingsDialog.accept, the validation of the radio button's engine: the
\* engine setting is written first. new_api is "" (empty), "same" (the
\* stored key) or "other"
accept_engine(Z, radio, new_url, new_api) ==
    LET W == [ Z EXCEPT !.settings.Engine = radio ]
    IN  IF radio = "whisper_asr_webservice" THEN
            IF new_url = "" \/ new_url # Z.settings.URL THEN
                IF new_url \in {"http", "https", "other"}
                THEN [ Z |-> [ W EXCEPT !.settings.URL = new_url,
                                        !.gui_enabled = TRUE ],
                       ok |-> TRUE ]
                ELSE [ Z |-> [ W EXCEPT !.gui_enabled = FALSE ], ok |-> FALSE ]
            ELSE [ Z |-> W, ok |-> TRUE ]
        ELSE IF radio = "whisper.api" THEN
            IF (new_api = "" /\ Z.settings.Key) \/ new_api = "other" THEN
                IF new_api # ""
                THEN [ Z |-> [ W EXCEPT !.settings.Key = TRUE,
                                        !.gui_enabled = TRUE ],
                       ok |-> TRUE ]
                ELSE [ Z |-> [ W EXCEPT !.gui_enabled = FALSE ], ok |-> FALSE ]
            ELSE [ Z |-> W, ok |-> TRUE ]
        ELSE [ Z |-> W, ok |-> TRUE ]

\* the two resets to VTT
reset_for_faster_whisper(Z) ==
    IF /\ Z.settings.Engine = "faster-whisper"
       /\ Z.settings.Output \notin {"VTT", "SRT", "TEXT"}
    THEN setCurrentText([ Z EXCEPT !.settings.Output = "VTT" ], "VTT")
    ELSE Z

reset_after_whisper_cpp(Z, previous_engine) ==
    IF /\ previous_engine = "whisper.cpp"
       /\ Z.settings.Engine # "whisper.cpp"
       /\ Z.settings.Output \in {"TSV", "LRC"}
    THEN setCurrentText([ Z EXCEPT !.settings.Output = "VTT" ], "VTT")
    ELSE Z

\* SettingsDialog.accept
accept(Z, radio, new_url, new_api) ==
    LET r == accept_engine(Z, radio, new_url, new_api)
    IN  IF r.ok
        THEN update_mainwindow_output_options(
                reset_after_whisper_cpp(reset_for_faster_whisper(r.Z),
                                        Z.settings.Engine))
        ELSE r.Z

(* --------------------- configurations and oracles ---------------------- *)
\* the settings a run can be started with; fields an engine does not read
\* are fixed
Configs ==
    { c \in [ Engine : Engines, FFmpeg : BOOLEAN,
              Language : {"Auto Detect", "English"},
              URL : UrlKinds, Key : BOOLEAN, Output : {"VTT"} ] :
        /\ c.Engine \notin {"whisper", "whisper.cpp"} => c.FFmpeg
        /\ c.Engine # "whisper_asr_webservice" => c.URL = "https"
        /\ c.Engine # "whisper.api" => c.Key }

\* an overwrite prompt needs <base>.wav and <base>_converted.wav on disk
MayPrompt(f) ==
    /\ Len(f) > 0
    /\ isfile(<< f[1], "wav" >>)
    /\ isfile(<< f[1] \o "_converted", "wav" >>)

\* the inputs a handler can read in the current state; an input the handler
\* cannot read is fixed
Oracles ==
    [ answers  : IF /\ settings.Engine \in {"whisper", "whisper.cpp"}
                    /\ \E f \in Range(filenames) \cup {worker[ConvertOwner].final} :
                           MayPrompt(f)
                 THEN [1..MaxPrompts -> Answers]
                 ELSE { [i \in 1..MaxPrompts |-> "Yes"] },
      hash_ok  : IF settings.Engine = "whisper.cpp" THEN BOOLEAN ELSE {TRUE},
      too_big  : IF settings.Engine = "whisper.api" THEN BOOLEAN ELSE {FALSE},
      insecure : IF settings.URL = "http" THEN {"Yes", "YesToAll", "No"} ELSE {"Yes"} ]

(* --------------------- the main thread's state ------------------------- *)
Cur ==
    [ status |-> status, STOP |-> STOP, filenames |-> filenames, worker |-> worker,
      overwrite_all_existing_files |-> overwrite_all_existing_files,
      not_overwrite_all_existing_files |-> not_overwrite_all_existing_files,
      insecure_server_ok_all |-> insecure_server_ok_all,
      gui_enabled |-> gui_enabled, start_enabled |-> start_enabled,
      log |-> log, dispatched |-> dispatched, converting |-> converting,
      outputs |-> outputs, prompts |-> prompts, np |-> 0, resumed |-> FALSE,
      ended |-> ended ]

Apply(S) ==
    /\ status' = S.status
    /\ STOP' = S.STOP
    /\ filenames' = S.filenames
    /\ worker' = S.worker
    /\ overwrite_all_existing_files' = S.overwrite_all_existing_files
    /\ not_overwrite_all_existing_files' = S.not_overwrite_all_existing_files
    /\ insecure_server_ok_all' = S.insecure_server_ok_all
    /\ gui_enabled' = S.gui_enabled
    /\ start_enabled' = S.start_enabled
    /\ log' = S.log
    /\ dispatched' = S.dispatched
    /\ converting' = S.converting
    /\ outputs' = S.outputs
    /\ prompts' = S.prompts
    /\ resumed' = S.resumed
    /\ ended' = S.ended

\* the window after construction, under one of the configurations cfgs and
\* with `limit` runs to explore
InitWindow(cfgs, limit) ==
    /\ settings \in cfgs
    /\ run_limit = limit
    /\ comboOutput = [ items |-> output_items(settings.Engine), index |-> 1 ]
    /\ disk = InitDisk
    /\ status = IDLE
    /\ STOP = FALSE
    /\ filenames = <<>>
    /\ worker = [ w \in Owners |-> NoWorker ]
    /\ overwrite_all_existing_files = FALSE
    /\ not_overwrite_all_existing_files = FALSE
    /\ insecure_server_ok_all = FALSE
    /\ gui_enabled = TRUE
    /\ start_enabled = FALSE
    /\ runs = 0
    /\ submitted = <<>>
    /\ log = <<>>
    /\ dispatched = <<>>
    /\ converting = <<>>
    /\ outputs = {}
    /\ prompts = <<>>
    /\ handled = 0
    /\ fault = FALSE
    /\ resubmitted = FALSE
    /\ found = <<>>
    /\ resumed = FALSE
    /\ ended = 0

Init == InitWindow(Configs, MaxRuns)

\* one more run under a configuration in which overwrite prompts occur
RerunConfigs ==
    { c \in Configs : c.Engine = "whisper" /\ c.FFmpeg /\ c.Language = "English" }
RerunInit == InitWindow(RerunConfigs, MaxRuns + 1)

(* ------------------------------ actions -------------------------------- *)
\* the record of what a run did starts afresh with a submission and a start
NewRecord(S) ==
    [ S EXCEPT !.log = <<>>, !.dispatched = <<>>, !.converting = <<>>,
               !.outputs = {}, !.prompts = <<>> ]

acceptable_extensions ==
    IF settings.Engine = "whisper_asr_webservice"
    THEN {".mp3", ".wav", ".mp4", ".aiff", ".mpeg", ".mov", ".wmv", ".webm"}
    ELSE IF settings.Engine = "whisper.api"
    THEN {".mp3", ".wav", ".mp4", ".mpeg", ".mpega", ".m4a", ".flac", ".ogg", ".webm"}
    ELSE IF ~settings.FFmpeg /\ settings.Engine = "whisper.cpp" THEN {".wav"}
    ELSE IF ~settings.FFmpeg /\ settings.Engine = "whisper" THEN {}
    ELSE AllExtensions

\* enable start button, enable start menu
files_received(S) == [S EXCEPT !.start_enabled = TRUE]

\* a failed conversion has left a file behind
Leftover == \E p \in DOMAIN disk : p \notin DOMAIN InitDisk /\ disk[p] = WavCorrupt

\* the bound on the runs: a run beyond MaxRuns is explored when a "to all"
\* answer of the run before is still in force or a failed conversion has
\* left a file behind
RunExplored ==
    \/ runs < MaxRuns
    \/ /\ runs < run_limit
       /\ overwrite_all_existing_files \/ not_overwrite_all_existing_files \/ Leftover

\* button1 / File > Open: the dialog returns the list `files` (empty when
\* the dialog is dismissed); its filter is a name pattern only
select_files(files) ==
    /\ gui_enabled
    /\ RunExplored
    /\ LET S1 == add_to_queue(clear_queue(NewRecord(Cur)), files)
       IN  Apply(IF queue_length(S1) > 0 THEN files_received(S1) ELSE S1)
    /\ submitted' = <<>>
    /\ handled' = 0
    /\ fault' = FALSE
    /\ resubmitted' = (filenames # <<>>)
    /\ UNCHANGED << run_limit, found, settings, comboOutput, disk, runs >>

\* dropEvent: the dropped files whose content is of an acceptable kind
files_to_accept(files) ==
    LET F[i \in 0..Len(files)] ==
            IF i = 0 THEN <<>>
            ELSE IF check_acceptable_file(files[i], acceptable_extensions)
                 THEN Append(F[i-1], files[i])
                 ELSE F[i-1]
    IN  F[Len(files)]

\* dragEnterEvent accepts in status Idle only; dropEvent keeps the files
\* whose content is of an acceptable kind
dropEvent(files) ==
    /\ status = IDLE
    /\ RunExplored
    /\ LET S1 == add_to_queue(clear_queue(NewRecord(Cur)), files_to_accept(files))
       IN  Apply(IF queue_length(S1) > 0 THEN files_received(S1) ELSE S1)
    /\ submitted' = <<>>
    /\ handled' = 0
    /\ fault' = FALSE
    /\ resubmitted' = (filenames # <<>>)
    /\ UNCHANGED << run_limit, found, settings, comboOutput, disk, runs >>

\* variant: a start that resets STOP only
reset_flags_stop_only(S) == [ S EXCEPT !.STOP = FALSE ]

\* variant: a start resets the "to all" answers but leaves STOP as it is
reset_flags_keep_stop(S) ==
    [ S EXCEPT !.overwrite_all_existing_files = FALSE,
               !.not_overwrite_all_existing_files = FALSE,
               !.insecure_server_ok_all = FALSE ]

\* do_process_files: the flags a start resets
reset_flags(S) ==
    [ S EXCEPT !.STOP = FALSE,
               !.overwrite_all_existing_files = FALSE,
               !.not_overwrite_all_existing_files = FALSE,
               !.insecure_server_ok_all = FALSE ]

\* button2 / Start Speech Recognition
do_process_files(o) ==
    /\ start_enabled
    /\ RunExplored
    /\ LET S0 == set_status([ reset_flags(NewRecord(Cur)) EXCEPT
                                 !.gui_enabled = FALSE, !.start_enabled = FALSE,
                                 !.ended = 0 ],
                             PROCESSING)
       IN  Apply(process_files(S0, o))
    /\ runs' = runs + 1
    /\ submitted' = filenames
    /\ handled' = 0
    /\ fault' = FALSE
    /\ resubmitted' = FALSE
    /\ UNCHANGED << run_limit, found, settings, comboOutput, disk >>

\* "Cancellation in process. Server processing cannot be interupted.", once
\* for each of the two remote engines that holds a worker
CannotInterrupt(S) ==
    ( IF S.worker["whisper_asr_webservice"].phase # "none"
      THEN << "cannot_interrupt" >> ELSE << >> ) \o
    ( IF S.worker["whisper.api"].phase # "none"
      THEN << "cannot_interrupt" >> ELSE << >> )

\* variant: without the guard on STOP and the status
stop_processing_effect_unguarded(S) ==
    [ S EXCEPT !.STOP = TRUE,
               !.status = CANCELLING,
               !.log = @ \o CannotInterrupt(S),
               !.worker = [ e \in Owners |->
                   IF @[e].phase = "none" THEN @[e]
                   ELSE IF e \in {"whisper.cpp", "faster-whisper", "whisper", "mlx-whisper"}
                        THEN [ @[e] EXCEPT !.intr = @ + 1,
                                           !.interrupted = @ \/ e = "mlx-whisper",
                                           !.stopped_in = S.worker[e].phase ]
                   ELSE [ @[e] EXCEPT !.stopped_in = S.worker[e].phase ] ] ]

\* variant: the cancel request interrupts the workers and shows Cancelling
\* but leaves the STOP flag as it is
stop_processing_effect_no_flag(S) ==
    IF ~S.STOP /\ S.status # CANCELLING THEN
        [ S EXCEPT !.status = CANCELLING,
                   !.log = @ \o CannotInterrupt(S),
                   !.worker = [ e \in Owners |->
                       IF @[e].phase = "none" THEN @[e]
                       ELSE [ @[e] EXCEPT !.stopped_in = S.worker[e].phase ] ] ]
    ELSE S

\* Cancel button or the Escape key (keyPressEvent)
stop_processing_effect(S) ==
    IF ~S.STOP /\ S.status # CANCELLING THEN
        [ S EXCEPT !.STOP = TRUE,
                   !.status = CANCELLING,
                   !.log = @ \o CannotInterrupt(S),
                   !.worker = [ e \in Owners |->
                       IF @[e].phase = "none" THEN @[e]
                       ELSE IF e \in {"whisper.cpp", "faster-whisper", "whisper"}
                            THEN [ @[e] EXCEPT !.intr = @ + 1,
                                               !.stopped_in = S.worker[e].phase ]
                       ELSE IF e = "mlx-whisper"
                            \* worker.interrupt.emit() -> handle_interrupt
                            THEN [ @[e] EXCEPT !.intr = @ + 1,
                                               !.interrupted = TRUE,
                                               !.stopped_in = S.worker[e].phase ]
                       ELSE [ @[e] EXCEPT !.stopped_in = S.worker[e].phase ] ] ]
    ELSE S

stop_processing ==
    /\ Apply(stop_processing_effect(Cur))
    /\ UNCHANGED << run_limit, found, settings, comboOutput, disk, runs, submitted, handled, fault,
                    resubmitted >>

\* the run() of the ConvertWorker ends and emits finished(data)
ConvertWorker_run ==
    /\ worker[ConvertOwner].phase = "running"
    /\ \E r \in ConvertOutcomes(worker[ConvertOwner]) :
          /\ worker' = [worker EXCEPT ![ConvertOwner] = r.w]
          /\ disk' = r.disk
          /\ fault' = (fault \/ r.w.failed)
    /\ UNCHANGED << run_limit, found, resumed, ended, settings, comboOutput, status, STOP, filenames,
                    overwrite_all_existing_files, not_overwrite_all_existing_files,
                    insecure_server_ok_all, gui_enabled, start_enabled,
                    runs, submitted, log, dispatched, converting, outputs, prompts,
                    handled, resubmitted >>

\* whisper.cpp Worker.run reaches start_asr, which creates the external
\* whisper-cli process; it does not when an interruption was requested before
Worker_start_asr ==
    /\ worker["whisper.cpp"].phase = "running"
    /\ worker["whisper.cpp"].process = "none"
    /\ worker["whisper.cpp"].intr = 0
    /\ worker' = [worker EXCEPT !["whisper.cpp"].process = "running"]
    /\ UNCHANGED << run_limit, found, resumed, ended, settings, comboOutput, disk, status, STOP, filenames,
                    overwrite_all_existing_files, not_overwrite_all_existing_files,
                    insecure_server_ok_all, gui_enabled, start_enabled,
                    runs, submitted, log, dispatched, converting, outputs, prompts,
                    handled, fault, resubmitted >>

\* variant: the thread takes its file off the queue itself when run() ends
Worker_run_dequeues(engine) ==
    /\ worker[engine].phase = "running"
    /\ \E w \in EngineOutcomes(engine, worker[engine]) :
          /\ worker' = [worker EXCEPT ![engine] = w]
          /\ fault' = (fault \/ w.failed)
    /\ filenames' = remove_from_queue(Cur, worker[engine].file).filenames
    /\ UNCHANGED << run_limit, found, resumed, ended, settings, comboOutput, disk, status, STOP,
                    overwrite_all_existing_files, not_overwrite_all_existing_files,
                    insecure_server_ok_all, gui_enabled, start_enabled,
                    runs, submitted, log, dispatched, converting, outputs, prompts,
                    handled, resubmitted >>

\* the run() of an engine's Worker ends
Worker_run(engine) ==
    /\ worker[engine].phase = "running"
    /\ \E w \in EngineOutcomes(engine, worker[engine]) :
          /\ worker' = [worker EXCEPT ![engine] = w]
          /\ fault' = (fault \/ w.failed)
    /\ UNCHANGED << run_limit, found, resumed, ended, settings, comboOutput, disk, status, STOP, filenames,
                    overwrite_all_existing_files, not_overwrite_all_existing_files,
                    insecure_server_ok_all, gui_enabled, start_enabled,
                    runs, submitted, log, dispatched, converting, outputs, prompts,
                    handled, resubmitted >>

\* the main thread runs the slot connected to ConvertWorker.finished
convert_finished(o) ==
    /\ worker[ConvertOwner].phase = "emitted"
    /\ LET data == worker[ConvertOwner]
       IN  Apply(handle_finished_convert_worker(Cur, o, data.file, data.final, data.err))
    /\ handled' = handled + 1
    /\ UNCHANGED << run_limit, found, settings, comboOutput, disk, runs, submitted, fault, resubmitted >>

\* the last statement of <engine>.handle_finished
handle_finished(r, o, filename) ==
    finished_processing(r.S, o, filename, r.err, r.cancelled, "")

\* the main thread runs <engine>.handle_finished for Worker.finished
engine_finished(engine, o) ==
    /\ worker[engine].phase = "emitted"
    /\ Apply(handle_finished(engine_handle_finished(Cur, engine, worker[engine]),
                              o, worker[engine].file))
    /\ handled' = handled + 1
    /\ UNCHANGED << run_limit, found, settings, comboOutput, disk, runs, submitted, fault, resubmitted >>

\* the window as the settings dialog sees it
Window == [ settings |-> settings, comboOutput |-> comboOutput,
            gui_enabled |-> gui_enabled ]

ApplyWindow(Z) ==
    /\ settings' = Z.settings
    /\ comboOutput' = Z.comboOutput
    /\ gui_enabled' = Z.gui_enabled
    /\ UNCHANGED << run_limit, found, resumed, ended, disk, status, STOP, filenames, worker,
                    overwrite_all_existing_files, not_overwrite_all_existing_files,
                    insecure_server_ok_all, start_enabled,
                    runs, submitted, log, dispatched, converting, outputs, prompts,
                    handled, fault, resubmitted >>

\* the texts the user can leave in the URL field
UrlTexts == {""} \cup UrlKinds
ApiTexts == {"", "same", "other"}

\* the OK button of the settings dialog, pressed with radio button `radio`
\* checked
SettingsDialog_accept(radio, new_url, new_api) ==
    /\ status = IDLE
    /\ new_api = "same" => settings.Key
    /\ ApplyWindow(accept(Window, radio, new_url, new_api))

\* the user picks an item of the output combo box of the main window
comboOutput_activated(i) ==
    /\ status = IDLE
    /\ i \in 1..Len(comboOutput.items)
    /\ ApplyWindow(setCurrentIndex(Window, i))

SettingsNext ==
    \/ \E radio \in Engines, new_url \in UrlTexts, new_api \in ApiTexts :
            SettingsDialog_accept(radio, new_url, new_api)
    \/ \E i \in 1..Len(output_items("whisper.cpp")) : comboOutput_activated(i)

SettingsSpec == Init /\ [][SettingsNext]_vars

(* The queue methods called on their own, by a caller that keeps the value  *)
(* remove_from_queue returns. add_to_queue takes one path or a list of      *)
(* paths; any path may be passed, in the queue or not.                      *)
queue_add(files) ==
    /\ Len(filenames) + Len(files) <= MaxQueue + 1
    /\ Apply(add_to_queue(Cur, files))
    /\ UNCHANGED << run_limit, found, settings, comboOutput, disk, runs, submitted,
                    handled, fault, resubmitted >>

queue_remove(filename) ==
    /\ Apply(remove_from_queue(Cur, filename))
    /\ found' = << remove_from_queue_found(Cur, filename) >>
    /\ UNCHANGED << run_limit, settings, comboOutput, disk, runs, submitted,
                    handled, fault, resubmitted >>

QueueNext ==
    \/ \E files \in FileLists : queue_add(files)
    \/ \E filename \in Candidates : queue_remove(filename)

QueueInit == InitWindow(RerunConfigs, MaxRuns)

QueueSpec == QueueInit /\ [][QueueNext]_vars

(* The window under faster-whisper, the engine that takes every file as it *)
(* is, with the file dialog returning any files of the folder.             *)
FolderLists == { s \in SeqsUpTo(DOMAIN InitDisk, MaxQueue) : Distinct(s) }

FolderConfigs == { c \in Configs : c.Engine = "faster-whisper" }

FolderInit == InitWindow(FolderConfigs, MaxRuns)

FolderNext ==
    \/ \E files \in FolderLists : select_files(files)
    \/ \E o \in Oracles : do_process_files(o)
    \/ stop_processing
    \/ Worker_run("faster-whisper")
    \/ \E o \in Oracles : engine_finished("faster-whisper", o)

FolderSpec == FolderInit /\ [][FolderNext]_vars

\* the steps of the window and of the workers that are threads only
WindowNext ==
    \/ \E files \in FileLists : select_files(files)
    \/ \E files \in FileLists : dropEvent(files)
    \/ \E o \in Oracles : do_process_files(o)
    \/ stop_processing
    \/ ConvertWorker_run
    \/ \E e \in Engines : Worker_run(e)
    \/ \E o \in Oracles : convert_finished(o)
    \/ \E e \in Engines, o \in Oracles : engine_finished(e, o)

Next ==
    \/ WindowNext
    \/ Worker_start_asr

Spec == Init /\ [][Next]_vars

\* the same window with a second run; the engine is whisper, which has no
\* external process
RerunSpec == RerunInit /\ [][WindowNext]_vars

\* a started thread runs to its end, and the event loop of the main thread
\* delivers every queued finished signal
Fairness ==
    /\ WF_vars(ConvertWorker_run)
    /\ WF_vars(\E e \in Engines : Worker_run(e))
    /\ WF_vars(\E o \in Oracles : convert_finished(o))
    /\ WF_vars(\E e \in Engines, o \in Oracles : engine_finished(e, o))

FairSpec == Spec /\ Fairness

(* ======================== properties of a run ========================== *)
\* the worker handles that are not None
Held == { e \in Owners : worker[e].phase # "none" }
\* no thread is running and no finished signal waits for the main thread
Quiescent == Held = {}

IsPrefix(s, t) == Len(s) <= Len(t) /\ SubSeq(t, 1, Len(s)) = s

\* a WAV file in the format whisper and whisper.cpp read directly
Canonical(f) ==
    /\ disk[f].magic = ".wav" /\ disk[f].readable
    /\ disk[f].rate = CorrectRate /\ disk[f].width = CorrectWidth

\* Nothing stands in the way of any job of the current run: the files need
\* no conversion, no clip is too short for language detection, the engine
\* is configured, no worker failed and the user did not ask to stop.
Benign ==
    /\ runs > 0
    /\ Len(submitted) >= 1
    /\ ~fault
    /\ ~STOP
    /\ settings.Engine \in {"whisper", "whisper.cpp"} =>
            \A f \in Range(submitted) : Canonical(f)
    /\ settings.Language = "Auto Detect" =>
            \A f \in Range(submitted) : disk[f].secs >= ShortClipLimit
    /\ settings.URL = "https"
    /\ settings.Key
    /\ Range(log) \cap {"hash_mismatch", "too_big"} = {}

C2_RunReturnsToIdle ==
    ~ ( /\ runs > 0
        /\ status # IDLE
        /\ ~gui_enabled /\ ~start_enabled
        /\ Quiescent )

\* what the slot of owner e passes on to finished_processing
Reported(e) ==
    IF e = ConvertOwner
    THEN [ err |-> worker[e].err, cancelled |-> FALSE ]
    ELSE LET r == engine_handle_finished(Cur, e, worker[e])
         IN  [ err |-> r.err, cancelled |-> r.cancelled ]

\* the step is the slot the main thread runs for the finished signal of e
SlotOf(e) == worker[e].phase = "emitted" /\ handled' = handled + 1

ErrorMessages == {"error", "too_big", "key_missing"}
Last(s) == IF s = <<>> THEN "" ELSE s[Len(s)]

(* C3: when a conversion or an engine job reports an error the run halts:  *)
(* the queue is cleared, the status is Idle and no further file is         *)
(* dispatched; within a run a next file is dispatched only by the handling *)
(* of a job that completed without error and without being cancelled.      *)
C3_ErrorHalts ==
    [][ /\ \A e \in Owners :
              SlotOf(e) /\ Reported(e).err /\ ~Reported(e).cancelled =>
                  /\ filenames' = <<>>
                  /\ status' = IDLE
                  /\ dispatched' = dispatched
                  /\ converting' = converting
        /\ (log' # log /\ Last(log') \in ErrorMessages) =>
                  /\ filenames' = <<>>
                  /\ status' = IDLE
                  /\ \A e \in Owners : worker'[e].phase = "none"
        /\ (runs' = runs /\ << dispatched', converting' >> # << dispatched, converting >>
                         /\ << dispatched', converting' >> # << <<>>, <<>> >>) =>
                  \E e \in Owners :
                      SlotOf(e) /\ ~Reported(e).err /\ ~Reported(e).cancelled
      ]_vars

C3_Witness ==
    /\ Last(log) = "error"
    /\ fault
    /\ handled = 1
    /\ Len(submitted) = MaxQueue
    /\ Len(dispatched) = 1
    /\ filenames = <<>>
    /\ status = IDLE

(* C4: for every engine, when the user asks to stop while a job is in      *)
(* flight and further files are queued, the engine's worker is asked to    *)
(* stop, the result of the job in flight is handled as cancelled (no       *)
(* output artifact is written for it and no error is reported), the files  *)
(* left in the queue are discarded without being dispatched and the status *)
(* ends as Idle.                                                           *)
C4_CancelInFlight ==
    [][ \A e \in Engines :
            ( /\ SlotOf(e)
              /\ worker[e].stopped_in = "running"
              /\ Len(filenames) >= 2 ) =>
            /\ worker[e].intr > 0
            /\ worker[e].file \notin { w.job : w \in outputs' }
            /\ log' = Append(log, "cancelled")
            /\ filenames' = <<>>
            /\ dispatched' = dispatched
            /\ converting' = converting
            /\ status' = IDLE
      ]_vars

(* C5: whenever the status becomes Cancelling it eventually becomes Idle,  *)
(* also when the request to stop arrives while no worker is in flight. In  *)
(* finite form: the status is never Cancelling with no worker in flight    *)
(* and no finished signal pending, a state in which no event is left that  *)
(* would set the status to Idle.                                           *)
C5_CancellingReturnsToIdle == ~ ( status = CANCELLING /\ Quiescent )

(* C6: stop_processing is idempotent: a second call right after the first  *)
(* leaves STOP, the status and the interruption requests sent to the       *)
(* workers as the first call left them.                                    *)
C6_StopTwiceIsStopOnce ==
    LET once == stop_processing_effect(Cur)
    IN  stop_processing_effect(once) = once

C6_Witness ==
    /\ status = CANCELLING
    /\ STOP
    /\ \E e \in Engines : worker[e].phase = "running" /\ worker[e].intr = 1

NonWav(f) == disk[f].magic \in AllExtensions \ {".wav"}

C9_NoShortClipDispatched ==
    settings.Language = "Auto Detect" =>
        \A i \in 1..Len(dispatched) : disk[dispatched[i]].secs >= ShortClipLimit

\* the duration the prober reports is in the open interval (0, 30)
ProbedShort(f) == get_audio_duration(f) > 0 /\ get_audio_duration(f) < ShortClipLimit

(* C10: with language Auto Detect a file whose probed duration is above 0  *)
(* and below 30 s is rejected before a ConvertWorker or an engine worker   *)
(* is started for it: the short-clip message is shown, the run halts and   *)
(* the status is Idle.                                                     *)
C10_ShortClipRejected ==
    /\ settings.Language = "Auto Detect" =>
            \A f \in Range(dispatched) \cup Range(converting) : ~ProbedShort(f)
    /\ "short_clip" \in Range(log) =>
            /\ Quiescent
            /\ filenames = <<>>
            /\ status = IDLE

C10_Witness ==
    /\ settings.Language = "Auto Detect"
    /\ "short_clip" \in Range(log)
    /\ ProbedShort(submitted[Len(submitted)])
    /\ Len(submitted) = MaxQueue
    /\ Len(dispatched) = 1
    /\ status = IDLE

C12_ConvertedNameOnCollision ==
    (worker[ConvertOwner].phase = "emitted" /\ ~worker[ConvertOwner].err) =>
        LET source == worker[ConvertOwner].file
            written == worker[ConvertOwner].final
        IN  /\ written # source
            /\ source = WithExtension(source, "wav") =>
                    written = << source[1] \o "_converted", "wav" >>

(* C13: after any sequence of settings-dialog accepts, also accepts that    *)
(* fail the URL or the API-key validation after the engine setting was     *)
(* written, the selected output format is one that output_items lists for  *)
(* the active engine.                                                      *)
OutputFormatSupported ==
    settings.Output \in Range(output_items(settings.Engine))

C13_AcceptKeepsOutputSupported ==
    [][ ( /\ OutputFormatSupported
          /\ \E radio \in Engines, new_url \in UrlTexts, new_api \in ApiTexts :
                SettingsDialog_accept(radio, new_url, new_api) )
        => OutputFormatSupported' ]_vars

(* C14: every failure inside an engine worker reaches the main thread as   *)
(* an error: when the main thread handles the signal of a worker whose     *)
(* job failed (and no stop was requested), the run halts with the queue    *)
(* cleared and no further worker started; the failure is never handled as  *)
(* a success.                                                              *)
C14_WorkerFailureHaltsRun ==
    [][ \A e \in Engines :
            ( /\ worker[e].phase = "emitted"
              /\ worker[e].failed
              /\ ~STOP
              /\ worker'[e].phase # "emitted" )
            => /\ filenames' = <<>>
               /\ status' = IDLE
               /\ Held' = {}
               /\ dispatched' = dispatched ]_vars

\* the messages a step adds to what the user was shown
NewMessages == Range(SubSeq(log', Len(log) + 1, Len(log')))

(* C15: a run that ends because the user asked to cancel is reported by    *)
(* 'Process has been cancelled.' and not by an error message, also when    *)
(* the interrupted worker reports an error together with the interruption. *)
C15_CancelReportedAsCancelled ==
    [][ \A e \in Engines :
            ( /\ STOP
              /\ worker[e].phase = "emitted"
              /\ worker[e].interrupted
              /\ worker'[e].phase # "emitted" )
            => /\ "cancelled" \in NewMessages
               /\ NewMessages \cap ErrorMessages = {} ]_vars

\* the messages finished_processing shows when it halts a run
HaltMessages == {"cancelled"} \cup ErrorMessages

(* C16: a halt of a run produces exactly one halt message; the messages    *)
(* shown since the run was started never hold more than one.               *)
C16_OneHaltMessage ==
    Cardinality({ i \in 1..Len(log) : log[i] \in HaltMessages }) <= 1

IsSuffix(s, t) ==
    Len(s) <= Len(t) /\ SubSeq(t, Len(t) - Len(s) + 1, Len(t)) = s

NameAccepted(f) == ("." \o f[Len(f)]) \in acceptable_extensions

(* C19: a submitted file whose content is not of a kind the active engine  *)
(* accepts never has a converter or an engine worker started on it,        *)
(* whether it came by drop or through the file dialog.                     *)
C19_UnsupportedNeverStartsWorker ==
    runs > 0 =>
        \A f \in Range(submitted) :
            ( NameAccepted(f) /\ ~check_acceptable_file(f, acceptable_extensions) )
                => f \notin Range(converting) \cup Range(dispatched)

ToAll == {"YesToAll", "NoToAll"}

(* C20: within one run no overwrite prompt follows a 'Yes to all' or 'No   *)
(* to all' answer, and the overwrite flags are reset when a run starts: a  *)
(* flag that is set during a run comes from an answer given in that run.   *)
C20_ToAllEndsPrompts ==
    /\ \A i \in 1..(Len(prompts) - 1) : prompts[i] \notin ToAll
    /\ ( /\ runs > 0
         /\ ~gui_enabled
         /\ overwrite_all_existing_files \/ not_overwrite_all_existing_files )
        => \E i \in 1..Len(prompts) : prompts[i] \in ToAll

\* a second run, started while a "to all" answer of the first was in force:
\* its first promptable file was prompted for, the answer was "to all", and
\* the second promptable file went through without a prompt
C20_Witness ==
    /\ runs = MaxRuns + 1
    /\ Len(submitted) = 2
    /\ \A i \in 1..Len(submitted) : MayPrompt(submitted[i]) /\ ~Canonical(submitted[i])
    /\ Len(prompts) = 1
    /\ prompts[1] \in ToAll
    /\ status = IDLE
    /\ Quiescent
    /\ Last(log) = "finished"

\* after is before with exactly one occurrence of x taken out
OneOccurrenceRemoved(before, after, x) ==
    \E i \in 1..Len(before) :
        /\ before[i] = x
        /\ after = SubSeq(before, 1, i - 1) \o SubSeq(before, i + 1, Len(before))

\* what remove_from_queue leaves alone: the run goes on as it was
RunUntouched ==
    /\ status' = status /\ STOP' = STOP /\ worker' = worker
    /\ gui_enabled' = gui_enabled /\ start_enabled' = start_enabled
    /\ log' = log

(* C21: remove_from_queue on a path that is not in the queue returns False, *)
(* leaves the queue unchanged and does not interrupt the run; on a path     *)
(* that is in the queue it removes exactly one occurrence and returns True. *)
C21_RemoveFromQueue ==
    [][\A filename \in Candidates :
          queue_remove(filename) =>
              /\ RunUntouched
              /\ IF filename \in Range(filenames)
                 THEN /\ found' = << TRUE >>
                      /\ OneOccurrenceRemoved(filenames, filenames', filename)
                 ELSE /\ found' = << FALSE >>
                      /\ filenames' = filenames]_vars

\* an absent path was passed for a queue that holds files, and a present
\* path for a queue that holds it twice
C21_Witness ==
    \/ found = << FALSE >> /\ filenames # <<>>
    \/ found = << TRUE >> /\ ~Distinct(filenames)

ConversionHandled ==
    /\ worker[ConvertOwner].phase = "emitted"
    /\ ~worker[ConvertOwner].err
    /\ ~STOP
    /\ worker'[ConvertOwner].phase # "emitted"

\* the output of the latest conversion of the run has not been dispatched
ConvertedPending ==
    /\ converting # <<>>
    /\ ConvertOutPath(Last(converting), "wav") \notin Range(dispatched)

C26_UnknownKindNotDispatched ==
    settings.Engine \in {"whisper", "whisper.cpp"} =>
        \A f \in Range(dispatched) : check_acceptable_file(f, AllExtensions)

(* C27: a cancel request made in any state (Idle, Processing, Converting)  *)
(* moves status to Cancelling, whatever value the STOP flag was left with  *)
(* by an earlier run: in every reachable state the status after            *)
(* stop_processing is Cancelling.                                          *)
C27_CancelAlwaysCancelling ==
    stop_processing_effect(Cur).status = CANCELLING

(* C28: once status is Cancelling its only successor is Idle: the handler   *)
(* of a completion signal never sets it back to Processing or Converting,  *)
(* also when a conversion finishes after the cancel request.               *)
C28_CancellingOnlyToIdle == handled > 0 => ~resumed

\* the workers whose thread runs or whose result waits for the main thread
InFlight == { e \in Owners : worker[e].phase \in {"running", "emitted"} }

(* C29: each worker that is started delivers exactly one result and the    *)
(* completion handling runs exactly once for it, whatever way its run      *)
(* ends: every worker started in the run is still in flight or has had its *)
(* result handled, and no result is handled twice.                         *)
C29_ExactlyOneResult ==
    Len(dispatched) + Len(converting) - handled = Cardinality(InFlight)

(* C30: for the whisper.cpp engine, once the worker has observed a cancel  *)
(* request the external whisper-cli process is terminated (terminate, then *)
(* kill after the bounded wait) before the worker delivers its result: the *)
(* process is not running while a cancelled result waits for the main      *)
(* thread, nor when the main thread handles it.                            *)
C30_ProcessStoppedBeforeResult ==
    LET w == worker["whisper.cpp"]
    IN  (w.phase = "emitted" /\ w.interrupted) => w.process # "running"

\* the cancel came while whisper-cli was running; the process did not end
\* within the wait after terminate() and was killed before the result
C30_Witness ==
    LET w == worker["whisper.cpp"]
    IN  /\ status = CANCELLING
        /\ w.phase = "emitted" /\ w.interrupted /\ ~w.err
        /\ w.process = "killed"

\* the main thread handles a result that is marked interrupted and carries
\* no error
InterruptedHandled(e) ==
    /\ worker[e].phase = "emitted"
    /\ worker[e].interrupted /\ ~worker[e].err
    /\ worker'[e].phase # "emitted"

(* C31: a job whose worker was interrupted is reported as cancelled, not   *)
(* as succeeded, and its completion handler writes no output artifact for  *)
(* it: handling a result that is marked interrupted shows 'cancelled',     *)
(* does not show 'finished' and leaves the written outputs as they were.   *)
C31_InterruptedWritesNoOutput ==
    [][\A e \in Engines :
          InterruptedHandled(e) =>
              /\ outputs' = outputs
              /\ "cancelled" \in NewMessages
              /\ "finished" \notin NewMessages]_vars

\* a step of a worker thread: a run() ends, or whisper-cli is created
ThreadStep ==
    \E e \in Owners :
        \/ worker[e].phase = "running" /\ worker'[e].phase \in {"emitted", "raised"}
        \/ worker[e].process = "none" /\ worker'[e].process = "running"

C33_NoWorkerAfterCancel ==
    [][ ( (STOP \/ status = CANCELLING) /\ runs' = runs ) =>
            ( dispatched' = dispatched /\ converting' = converting ) ]_vars

\* the user cancelled a run of two files while its first worker was in
\* flight; the result was handled and the run ended with one worker started
C33_Witness ==
    /\ status = IDLE /\ STOP /\ handled = 1
    /\ Len(submitted) = 2
    /\ Len(dispatched) + Len(converting) = 1
    /\ "short_clip" \notin Range(log)
    /\ "cancelled" \in Range(log)

(* C34: in every run a terminal routine (notify_finished or                 *)
(* reset_after_err_or_cancelled) runs at most once: a halt is not processed *)
(* twice, also when finished_processing re-enters process_files and the    *)
(* inner call halts before the outer one returns.                          *)
C34_OneTerminalRoutine == ended <= 1

(* C35: 'Process has been cancelled.' is shown only when the user asked to  *)
(* stop or declined a confirmation prompt: a run that the short-clip guard *)
(* halts is reported as an error and never as cancelled.                   *)
C35_ShortClipNotCancelled ==
    "short_clip" \in Range(log) => "cancelled" \notin Range(log)

\* the main thread handles the result of a conversion during which the
\* user asked to stop
CancelledConversionHandled ==
    /\ worker[ConvertOwner].phase = "emitted"
    /\ worker[ConvertOwner].stopped_in # "none"
    /\ worker'[ConvertOwner].phase # "emitted"

Outcome(S) ==
    << S.status, S.STOP, S.filenames, S.worker, S.log, S.dispatched,
       S.converting, S.outputs, S.prompts, S.ended >>

\* the window from which Start would work had no cancel request been left
WithoutCancelRequest ==
    [ Cur EXCEPT !.STOP = FALSE,
                 !.status = IF @ = CANCELLING THEN IDLE ELSE @ ]

(* C37: the cancel flag is per run: when a run is started while STOP is    *)
(* still set (a cancel request made before the run, or the flag left by an *)
(* earlier halted run) the run proceeds exactly as it would have without   *)
(* the flag, since do_process_files clears STOP and sets Processing before *)
(* the first file is examined.                                             *)
C37_StaleStopIgnored ==
    [][ ( runs' = runs + 1 /\ STOP ) =>
          \E o \in Oracles :
             << status', STOP', filenames', worker', log', dispatched',
                converting', outputs', prompts', ended' >>
               = Outcome(process_files(
                    set_status([ reset_flags(NewRecord(WithoutCancelRequest)) EXCEPT
                                    !.gui_enabled = FALSE, !.start_enabled = FALSE,
                                    !.ended = 0 ],
                               PROCESSING), o)) ]_vars

\* a run was started while the status was still Cancelling, and the start
\* has put a worker on the first file
C37_Witness ==
    /\ resumed /\ handled = 0
    /\ status \in {PROCESSING, CONVERTING} /\ ~STOP
    /\ Len(dispatched) + Len(converting) = 1

C39_OutputPathsDistinct ==
    \A x \in outputs : \A y \in outputs : x.out = y.out => x.job = y.job

TypeOK ==
    /\ ended \in 0..3
    /\ found \in {<<>>, << TRUE >>, << FALSE >>}
    /\ status \in Status
    /\ STOP \in BOOLEAN
    /\ Len(filenames) <= MaxQueue + 2
    /\ runs <= run_limit
    /\ Len(prompts) <= MaxPrompts
    /\ comboOutput.index \in 0..Len(comboOutput.items)

====
